---------------------------- MODULE Spec2Model ----------------------------
(***************************************************************************)
(* Model of the xcom485i Modbus RTU master (src/xcom485i/client.py,        *)
(* src/xcom485i/addresses.py) talking to an Xcom-485i gateway.             *)
(*                                                                         *)
(* The client is the class Xcom485i: its state is the Addresses object and *)
(* the serial port it was given.  Every public method builds one request,  *)
(* hands it to rtu.send_message and turns the reply (or the exception)     *)
(* into the value returned to the caller.  The gateway, its message queue  *)
(* and the serial line are the environment.                                *)
(***************************************************************************)
EXTENDS Integers, Sequences, FiniteSets, TLC

(***************************************************************************)
(* Bounds of the model                                                     *)
(***************************************************************************)
\* messages the installation pushes into the gateway during one run
MaxArrivals == 3

\* dip-switch settings of the runs
Offsets == {0, 32}

\* the largest offset of the runs over the address space: with it the last
\* device id, offset + 61, is the last Modbus slave address, 247
MaxOffset == 186

(***************************************************************************)
(* Program constants                                                       *)
(***************************************************************************)
\* "The number of pending messages (up to 128)"
MaxPending == 128

\* Modbus register of parameter 1107, the register the examples access
ParamBase == 14

\* Modbus register of user info 3001
InfoAddress == 2

(***************************************************************************)
(* addresses.py                                                            *)
(***************************************************************************)
Addresses(offset) ==
    [ dip_switches_offset |-> offset,
      gateway_device_id |-> offset + 1,
      system_device_id |-> offset + 2,
      xt_l1_group_device_id |-> offset + 7,
      xt_l2_group_device_id |-> offset + 8,
      xt_l3_group_device_id |-> offset + 9,
      xt_group_device_id |-> offset + 10,
      xt_1_device_id |-> (offset + 10) + 1,
      xt_2_device_id |-> (offset + 10) + 2,
      xt_3_device_id |-> (offset + 10) + 3,
      xt_4_device_id |-> (offset + 10) + 4,
      xt_5_device_id |-> (offset + 10) + 5,
      xt_6_device_id |-> (offset + 10) + 6,
      xt_7_device_id |-> (offset + 10) + 7,
      xt_8_device_id |-> (offset + 10) + 8,
      xt_9_device_id |-> (offset + 10) + 9,
      vt_group_device_id |-> offset + 20,
      vt_1_device_id |-> (offset + 20) + 1,
      vt_2_device_id |-> (offset + 20) + 2,
      vt_3_device_id |-> (offset + 20) + 3,
      vt_4_device_id |-> (offset + 20) + 4,
      vt_5_device_id |-> (offset + 20) + 5,
      vt_6_device_id |-> (offset + 20) + 6,
      vt_7_device_id |-> (offset + 20) + 7,
      vt_8_device_id |-> (offset + 20) + 8,
      vt_9_device_id |-> (offset + 20) + 9,
      vt_10_device_id |-> (offset + 20) + 10,
      vt_11_device_id |-> (offset + 20) + 11,
      vt_12_device_id |-> (offset + 20) + 12,
      vt_13_device_id |-> (offset + 20) + 13,
      vt_14_device_id |-> (offset + 20) + 14,
      vt_15_device_id |-> (offset + 20) + 15,
      vs_group_device_id |-> offset + 40,
      vs_1_device_id |-> (offset + 40) + 1,
      vs_2_device_id |-> (offset + 40) + 2,
      vs_3_device_id |-> (offset + 40) + 3,
      vs_4_device_id |-> (offset + 40) + 4,
      vs_5_device_id |-> (offset + 40) + 5,
      vs_6_device_id |-> (offset + 40) + 6,
      vs_7_device_id |-> (offset + 40) + 7,
      vs_8_device_id |-> (offset + 40) + 8,
      vs_9_device_id |-> (offset + 40) + 9,
      vs_10_device_id |-> (offset + 40) + 10,
      vs_11_device_id |-> (offset + 40) + 11,
      vs_12_device_id |-> (offset + 40) + 12,
      vs_13_device_id |-> (offset + 40) + 13,
      vs_14_device_id |-> (offset + 40) + 14,
      vs_15_device_id |-> (offset + 40) + 15,
      bsp_group_device_id |-> offset + 60,
      bsp_device_id |-> (offset + 60) + 1,
      read_param_flash_offset |-> 0,
      read_param_min_offset |-> 2000,
      read_param_max_offset |-> 4000,
      write_param_flash_ram |-> 0,
      write_param_ram_only |-> 6000 ]

(***************************************************************************)
(* Values.  A Python float that holds a binary32 value is the record of    *)
(* the three fields of that value; a datetime is the record of its fields. *)
(***************************************************************************)
F32(sign, exp, man) == [sign |-> sign, exp |-> exp, man |-> man]

\* the quiet bit of a binary32 significand
QuietBit == 2^22

IsNaN(v) == v.exp = 255 /\ v.man # 0

IsSignallingNaN(v) == IsNaN(v) /\ v.man < QuietBit

\* C's conversion between double and float, which struct's 'f' format goes
\* through in both directions: every value this model holds is exact in both
\* widths, only a signalling NaN is changed (its quiet bit is set) on builds
\* whose conversion instruction quiets it.
c_float_conversion(v, quiets) ==
    IF quiets /\ IsSignallingNaN(v)
    THEN F32(v.sign, v.exp, v.man + QuietBit)
    ELSE v

\* struct.pack('>f', value): the four bytes of the binary32, most significant first
pack_f(value, quiets) ==
    LET y == c_float_conversion(value, quiets)
    IN << y.sign * 128 + (y.exp \div 2),
          (y.exp % 2) * 128 + (y.man \div 65536),
          (y.man \div 256) % 256,
          y.man % 256 >>

\* struct.unpack('>f', ba)[0]
unpack_f(ba, quiets) ==
    c_float_conversion(
        F32(ba[1] \div 128,
            (ba[1] % 128) * 2 + (ba[2] \div 128),
            (ba[2] % 128) * 65536 + ba[3] * 256 + ba[4]),
        quiets)

\* struct.unpack('>HH', ba): two unsigned 16-bit words, big-endian
unpack_HH(ba) == << ba[1] * 256 + ba[2], ba[3] * 256 + ba[4] >>

\* struct.pack('>HH', r0, r1)
pack_HH(r0, r1) == << r0 \div 256, r0 % 256, r1 \div 256, r1 % 256 >>


(***************************************************************************)
(* datetime: the part of Python's datetime the client uses                 *)
(***************************************************************************)
DateTimeRec(year, month, day, hour, minute, second, microsecond) ==
    [year |-> year, month |-> month, day |-> day, hour |-> hour,
     minute |-> minute, second |-> second, microsecond |-> microsecond]

IsLeap(year) == year % 4 = 0 /\ (year % 100 # 0 \/ year % 400 = 0)

DaysInMonth(year, month) ==
    IF month = 2 THEN (IF IsLeap(year) THEN 29 ELSE 28)
    ELSE IF month \in {4, 6, 9, 11} THEN 30 ELSE 31

\* days of the year before the first day of the month
RECURSIVE DaysBeforeMonth(_, _)
DaysBeforeMonth(year, month) ==
    IF month <= 1 THEN 0
    ELSE DaysBeforeMonth(year, month - 1) + DaysInMonth(year, month - 1)

\* days before January 1st of the year (proleptic Gregorian ordinal)
DaysBeforeYear(year) ==
    LET y == year - 1
    IN y * 365 + (y \div 4) - (y \div 100) + (y \div 400)

\* datetime.weekday(): Monday is 0, Sunday is 6
weekday(value) ==
    (DaysBeforeYear(value.year) + DaysBeforeMonth(value.year, value.month)
       + value.day + 6) % 7

\* the constructor datetime(year, month, day, hour, minute, second,
\* microsecond) accepts exactly these arguments and raises ValueError on
\* any other
datetime_valid(year, month, day, hour, minute, second, microsecond) ==
    /\ year \in 1..9999
    /\ month \in 1..12
    /\ day >= 1 /\ day <= DaysInMonth(year, month)
    /\ hour \in 0..23
    /\ minute \in 0..59
    /\ second \in 0..59
    /\ microsecond \in 0..999999

(***************************************************************************)
(* What a method returns to its caller                                     *)
(***************************************************************************)
\* the method falls off its end: the caller gets None
None == [kind |-> "None", value |-> <<>>, exc |-> "none"]

Value(v) == [kind |-> "value", value |-> v, exc |-> "none"]

\* the method ends with an exception raised to the caller
Raise(e) == [kind |-> "raise", value |-> <<>>, exc |-> e]

(***************************************************************************)
(* Requests: the Modbus RTU application data units umodbus builds          *)
(***************************************************************************)
Request(slave_id, function_code, starting_address, quantity, values) ==
    [slave_id |-> slave_id, function_code |-> function_code,
     starting_address |-> starting_address, quantity |-> quantity,
     values |-> values]

\* rtu.read_holding_registers: function code 0x03
rtu_read_holding_registers(slave_id, starting_address, quantity) ==
    Request(slave_id, 3, starting_address, quantity, <<>>)

\* rtu.read_input_registers: function code 0x04
rtu_read_input_registers(slave_id, starting_address, quantity) ==
    Request(slave_id, 4, starting_address, quantity, <<>>)

\* rtu.write_multiple_registers: function code 0x10, one register per value
rtu_write_multiple_registers(slave_id, starting_address, values) ==
    Request(slave_id, 16, starting_address, Len(values), values)

\* the method adds a window offset of its own to the address it is given
read_parameter_message_offset(slave_id, address) ==
    rtu_read_holding_registers(slave_id, address + 2000, 2)

read_parameter_message(slave_id, address) ==
    rtu_read_holding_registers(slave_id, address, 2)

read_time_message(slave_id) ==
    rtu_read_holding_registers(slave_id, 0, 8)

\* ba = pack('>f', value); registers = unpack('>HH', ba)
write_parameter_registers(value, quiets) ==
    unpack_HH(pack_f(value, quiets))

write_parameter_message(slave_id, address, value, quiets) ==
    rtu_write_multiple_registers(slave_id, address,
                                 write_parameter_registers(value, quiets))

\* the weekday register left out
write_time_registers_no_weekday(value) ==
    << value.microsecond \div 1000, value.second, value.minute, value.hour,
       value.day, value.month, value.year >>

write_time_registers(value) ==
    << value.microsecond \div 1000,
       value.second,
       value.minute,
       value.hour,
       weekday(value),
       value.day,
       value.month,
       value.year >>

write_time_message(slave_id, value) ==
    rtu_write_multiple_registers(slave_id, 0, write_time_registers(value))

\* the user info read from the holding registers
read_info_message_holding(slave_id, address) ==
    rtu_read_holding_registers(slave_id, address, 2)

read_info_message(slave_id, address) ==
    rtu_read_input_registers(slave_id, address, 2)

read_input_registers_message(slave_id, address, quantity) ==
    rtu_read_input_registers(slave_id, address, quantity)

\* the count taken from a read of the four message registers
pending_message_count_message_pop(addr) ==
    read_input_registers_message(addr.gateway_device_id, 1, 4)

\* the count read from input register 1 instead of 0
pending_message_count_message_reg1(addr) ==
    read_input_registers_message(addr.gateway_device_id, 1, 1)

pending_message_count_message(addr) ==
    read_input_registers_message(addr.gateway_device_id, 0, 1)

\* the message read from input register 0 instead of 1
message_registers_message_reg0(addr) ==
    read_input_registers_message(addr.gateway_device_id, 0, 4)

message_registers_message(addr) ==
    read_input_registers_message(addr.gateway_device_id, 1, 4)

(***************************************************************************)
(* State                                                                   *)
(***************************************************************************)
VARIABLES
    alive,          \* the Xcom485i object exists (__del__ has not run)
    addresses,      \* Xcom485i.addresses
    serial_port,    \* Xcom485i.serial_port: "open" or "closed"
    dip,            \* the offset set with the dip-switches of the gateway
    snan_quieted,   \* whether this build's float conversion quiets a signalling NaN
    arrived,        \* number of messages the installation has pushed so far
    queue,          \* the gateway's pending messages, oldest first
    removed,        \* the messages the gateway has deleted from its queue
    delivered,      \* the messages message_registers() has returned, in order
    last,           \* the last call: its arguments, its exchange, its outcome
    pass,           \* the caller's drain pass (examples/ex_read_messages.py)
    codec,          \* a parameter value, or a time, on its way to the registers and back
    shared          \* two callers of one client: their calls and the serial line

vars == << alive, addresses, serial_port, dip, snan_quieted, arrived, queue, removed,
           delivered, last, pass, codec, shared >>

(***************************************************************************)
(* The environment: the gateway and the devices behind it                  *)
(***************************************************************************)
\* the four input registers of a pending message:
\* device source, message id, value most significant word, least significant word
MessageOf(k) == << dip + 11, k, 0, k >>

\* the message a four-register reply carries (0: none)
MessageId(registers) == registers[2]

\* register pairs the devices hold: 2.0 and 50.0
DeviceFloatRegisters == { <<16384, 0>>, <<16968, 0>> }

\* time registers the system device holds: a date and time with the year in
\* the format 2022 = 22, a clock that was never set (month and day 0), a
\* day register of 0 and a first register of 1000
DeviceTimeRegisters ==
    { <<123, 45, 30, 12, 1, 15, 3, 22>>, <<0, 0, 0, 0, 0, 0, 0, 0>>,
      <<123, 45, 30, 12, 1, 0, 3, 22>>, <<1000, 45, 30, 12, 1, 15, 3, 22>> }

Data(d, q) == [status |-> "data", data |-> d, queue |-> q]

\* the local variable response of a method whose exchange raised: it was
\* never bound (the reply to a write is a number, to a read a list)
Unbound(req) == IF req.function_code = 16 THEN 0 ELSE <<>>

ExceptionResponse(req) ==
    [status |-> "exception", data |-> Unbound(req), queue |-> queue]

\* what the addressed device can answer to a request that reached it, with
\* the gateway's queue after it.  Input register 0 of the gateway is the
\* number of pending messages; reading its registers 1..4 hands out the
\* oldest message and deletes it.
GatewayReplies(req) ==
    IF req.slave_id = dip + 1
    THEN IF req.function_code = 4 /\ req.starting_address = 0 /\ req.quantity = 1
         THEN { Data(<< Len(queue) >>, queue) }
         ELSE IF req.function_code = 4 /\ req.starting_address = 1
                 /\ req.quantity = 4
         THEN IF queue # <<>>
              THEN { Data(MessageOf(Head(queue)), Tail(queue)) }
              ELSE { Data(<<0, 0, 0, 0>>, queue), ExceptionResponse(req) }
         ELSE { ExceptionResponse(req) }
    ELSE IF req.slave_id \in (dip + 2)..(dip + 61)
    THEN IF req.function_code = 16
         THEN { Data(req.quantity, queue), ExceptionResponse(req) }
         ELSE IF req.quantity = 2
         THEN { Data(d, queue) : d \in DeviceFloatRegisters } \cup { ExceptionResponse(req) }
         ELSE IF req.function_code = 3 /\ req.quantity = 8
         THEN { Data(d, queue) : d \in DeviceTimeRegisters } \cup { ExceptionResponse(req) }
         ELSE { ExceptionResponse(req) }
    ELSE {}

Exchange(tx, fault, raised, response, q) ==
    [tx |-> tx, fault |-> fault, raised |-> raised, response |-> response,
     queue |-> q]

\* a failed exchange is tried a second time
send_message_retry(message) ==
    { Exchange(<<message, message>>, "lost_request", "ValueError",
               Unbound(message), queue) }
    \cup UNION {
        IF g.status = "data"
        THEN { Exchange(<<message>>, "none", "none", g.data, g.queue),
               Exchange(<<message, message>>, "lost_reply", "ValueError",
                        Unbound(message), g.queue) }
        ELSE { Exchange(<<message, message>>, "exception", "ModbusError",
                        Unbound(message), queue) }
        : g \in GatewayReplies(message) }

\* rtu.send_message(message, serial_port): the request is written to the
\* port once and the reply is read.  The outcomes: the reply's data; a
\* ValueError when no (complete) reply comes, because the request or the
\* reply was lost; a KeyError when the reply is garbled; a ModbusError
\* when the device answers with an exception response.
send_message(message) ==
    { Exchange(<<message>>, "lost_request", "ValueError", Unbound(message), queue) }
    \cup UNION {
        IF g.status = "data"
        THEN { Exchange(<<message>>, "none", "none", g.data, g.queue),
               Exchange(<<message>>, "lost_reply", "ValueError",
                        Unbound(message), g.queue),
               Exchange(<<message>>, "garbled_reply", "KeyError",
                        Unbound(message), g.queue) }
        ELSE { Exchange(<<message>>, "exception", "ModbusError",
                        Unbound(message), queue) }
        : g \in GatewayReplies(message) }

TransportFaults == {"lost_request", "lost_reply", "garbled_reply"}

(***************************************************************************)
(* What each method returns for an exchange x                              *)
(***************************************************************************)
\* the two registers taken in the other order
read_parameter_decode_swapped(response, quiets) ==
    unpack_f(pack_HH(response[2], response[1]), quiets)

\* ba = pack('>HH', response[0], response[1]); unpack('>f', ba)[0]
read_parameter_decode(response, quiets) ==
    unpack_f(pack_HH(response[1], response[2]), quiets)

read_parameter_return(x) ==
    IF x.raised # "none" THEN None
    ELSE Value(read_parameter_decode(x.response, snan_quieted))

read_info_decode(response, quiets) ==
    unpack_f(pack_HH(response[1], response[2]), quiets)

read_info_return(x) ==
    IF x.raised # "none" THEN None
    ELSE Value(read_info_decode(x.response, snan_quieted))

\* the minute and the second registers taken for each other
read_time_decode_min_sec_swapped(response) ==
    IF datetime_valid(response[8], response[7], response[6], response[4],
                      response[2], response[3], response[1] * 1000)
    THEN Value(DateTimeRec(response[8], response[7], response[6], response[4],
                           response[2], response[3], response[1] * 1000))
    ELSE Raise("ValueError")

\* datetime(response[7], response[6], response[5], response[3], response[2],
\*          response[1], response[0]*1000)
read_time_decode(response) ==
    IF datetime_valid(response[8], response[7], response[6], response[4],
                      response[3], response[2], response[1] * 1000)
    THEN Value(DateTimeRec(response[8], response[7], response[6], response[4],
                           response[3], response[2], response[1] * 1000))
    ELSE Raise("ValueError")

\* the ValueError of the datetime constructor handled like that of the exchange
read_time_return_swallow(x) ==
    IF x.raised # "none" THEN None
    ELSE IF read_time_decode(x.response).kind = "raise" THEN None
    ELSE read_time_decode(x.response)

read_time_return(x) ==
    IF x.raised # "none" THEN None ELSE read_time_decode(x.response)

write_parameter_return(x) ==
    IF x.raised # "none" THEN None ELSE Value(x.response)

write_time_return(x) ==
    IF x.raised # "none" THEN None ELSE Value(x.response)

\* a failed exchange hands out the response of the call before
read_input_registers_return_stale(x) ==
    IF x.raised = "none" THEN Value(x.response)
    ELSE IF last.op = "message_registers" THEN last.ret ELSE None

read_input_registers_return(x) ==
    IF x.raised # "none" THEN None ELSE Value(x.response)

\* read_input_registers(...)[0]: subscripting None raises TypeError
pending_message_count_return(x) ==
    LET r == read_input_registers_return(x)
    IN IF r.kind = "None" THEN Raise("TypeError") ELSE Value(r.value[1])

message_registers_return(x) == read_input_registers_return(x)

\* the handler of a transport error closes the port
client_after_close(x) ==
    [addresses |-> addresses,
     serial_port |-> IF x.raised \in {"ValueError", "KeyError"}
                     THEN "closed" ELSE serial_port]

\* a method builds the addresses anew, for the next offset
client_after_rebased(x) ==
    [addresses |-> Addresses(addresses.dip_switches_offset + 1),
     serial_port |-> serial_port]

\* the client's own fields when a method ends: no method assigns to them
client_after(x) == [addresses |-> addresses, serial_port |-> serial_port]

(***************************************************************************)
(* The callers' inputs                                                     *)
(***************************************************************************)
\* 8.0, the value examples/ex_write_param.py writes
WriteValues == { F32(0, 130, 0) }

WriteTimes == { DateTimeRec(2022, 3, 15, 12, 30, 45, 123456) }

ReadWindows == {"flash", "min", "max"}

WriteWindows == {"flash_ram", "ram_only"}

\* the window offset the caller adds to the register address
WindowOffset(addr, window) ==
    CASE window = "flash" -> addr.read_param_flash_offset
      [] window = "min" -> addr.read_param_min_offset
      [] window = "max" -> addr.read_param_max_offset
      [] window = "flash_ram" -> addr.write_param_flash_ram
      [] window = "ram_only" -> addr.write_param_ram_only

Range(seq) == { seq[k] : k \in 1..Len(seq) }

InPass == pass.pc \in {"loop", "recount"}

NoCodec == [pc |-> "off", value |-> F32(0, 0, 0), registers |-> <<>>,
            decoded |-> F32(0, 0, 0), by |-> "none"]

NoPass == [pc |-> "idle", n |-> 0, i |-> 0, q0 |-> <<>>, got |-> <<>>,
           clean |-> TRUE, recount |-> -1]

NoCall ==
    [op |-> "none", slave_id |-> 0, address |-> 0, window |-> "none",
     value |-> <<>>, before |-> <<>>, streak |-> 0,
     exchange |-> Exchange(<<>>, "none", "none", <<>>, <<>>), ret |-> None]

\* the script that ran the last pass has ended when another call is made
PassOver == IF pass.pc \in {"done", "aborted"} THEN NoPass ELSE pass

\* the record of a call; streak tells a pending_message_count() call made
\* after another one, with no message arrived in between (2), from a first
\* one (1)
Called(op, slave_id, address, window, value, x, ret) ==
    [op |-> op, slave_id |-> slave_id, address |-> address, window |-> window,
     value |-> value, before |-> queue, exchange |-> x, ret |-> ret,
     streak |-> IF op # "pending_message_count" THEN 0
                ELSE IF last.op = op /\ last.exchange.queue = queue THEN 2
                ELSE 1]

\* the callers that share the client
Callers == {1, 2}

\* no caller is in a call and the serial line is silent
NoShared ==
    [pc |-> [c \in Callers |-> "idle"],
     window |-> [c \in Callers |-> "none"],
     ret |-> [c \in Callers |-> None],
     from |-> [c \in Callers |-> 0],
     line |-> <<>>,
     rx |-> <<>>,
     started |-> {}]

(***************************************************************************)
(* Init: Xcom485i(serial_port, offset) was just constructed, with the      *)
(* offset of the gateway's dip-switches; the gateway's queue is empty.     *)
(***************************************************************************)
Init ==
    /\ dip \in Offsets
    /\ alive = TRUE
    /\ addresses = Addresses(dip)
    /\ serial_port = "open"
    /\ snan_quieted \in BOOLEAN
    /\ arrived = 0
    /\ queue = <<>>
    /\ removed = {}
    /\ delivered = <<>>
    /\ last = NoCall
    /\ pass = NoPass
    /\ shared = NoShared
    /\ codec = NoCodec

\* the exchange x took place: the gateway's side of it, and the client's
\* fields as the method leaves them
Exchanged(x) ==
    /\ queue' = x.queue
    /\ removed' = removed \cup (Range(queue) \ Range(x.queue))
    /\ addresses' = client_after(x).addresses
    /\ serial_port' = client_after(x).serial_port
    /\ UNCHANGED << alive, dip, snan_quieted, arrived, codec, shared >>

(***************************************************************************)
(* The operations of the client                                            *)
(***************************************************************************)
read_parameter ==
    /\ alive /\ serial_port = "open" /\ ~InPass
    /\ \E window \in ReadWindows :
         LET slave_id == addresses.xt_1_device_id
             address == ParamBase + WindowOffset(addresses, window)
             message == read_parameter_message(slave_id, address)
         IN \E x \in send_message(message) :
              /\ last' = Called("read_parameter", slave_id, address, window,
                                <<>>, x, read_parameter_return(x))
              /\ Exchanged(x)
              /\ pass' = PassOver
              /\ UNCHANGED delivered

read_time ==
    /\ alive /\ serial_port = "open" /\ ~InPass
    /\ LET slave_id == addresses.system_device_id
           message == read_time_message(slave_id)
       IN \E x \in send_message(message) :
            /\ last' = Called("read_time", slave_id, 0, "none", <<>>, x,
                              read_time_return(x))
            /\ Exchanged(x)
            /\ pass' = PassOver
            /\ UNCHANGED delivered

write_parameter ==
    /\ alive /\ serial_port = "open" /\ ~InPass
    /\ \E window \in WriteWindows, value \in WriteValues :
         LET slave_id == addresses.xt_1_device_id
             address == ParamBase + WindowOffset(addresses, window)
             message == write_parameter_message(slave_id, address, value,
                                                snan_quieted)
         IN \E x \in send_message(message) :
              /\ last' = Called("write_parameter", slave_id, address, window,
                                value, x, write_parameter_return(x))
              /\ Exchanged(x)
              /\ pass' = PassOver
              /\ UNCHANGED delivered

write_time ==
    /\ alive /\ serial_port = "open" /\ ~InPass
    /\ \E value \in WriteTimes :
         LET slave_id == addresses.system_device_id
             message == write_time_message(slave_id, value)
         IN \E x \in send_message(message) :
              /\ last' = Called("write_time", slave_id, 0, "none", value, x,
                                write_time_return(x))
              /\ Exchanged(x)
              /\ pass' = PassOver
              /\ UNCHANGED delivered

read_info ==
    /\ alive /\ serial_port = "open" /\ ~InPass
    /\ LET slave_id == addresses.xt_1_device_id
           address == InfoAddress
           message == read_info_message(slave_id, address)
       IN \E x \in send_message(message) :
            /\ last' = Called("read_info", slave_id, address, "none", <<>>, x,
                              read_info_return(x))
            /\ Exchanged(x)
            /\ pass' = PassOver
            /\ UNCHANGED delivered

\* pending_message_count(), called on its own, as the first call of a drain
\* pass (pending_message_count = xcom485i.pending_message_count()), or as
\* the count query that follows the pass.  An exception ends the script.
pending_message_count ==
    /\ alive /\ serial_port = "open" /\ pass.pc # "loop"
    /\ LET message == pending_message_count_message(addresses)
       IN \E x \in send_message(message), on_its_own \in BOOLEAN :
            LET ret == pending_message_count_return(x)
            IN /\ last' = Called("pending_message_count", message.slave_id,
                                 message.starting_address, "none", <<>>, x, ret)
               /\ Exchanged(x)
               /\ UNCHANGED delivered
               /\ pass' =
                    IF pass.pc = "recount"
                    THEN IF ret.kind = "value"
                         THEN [pass EXCEPT !.pc = "done", !.recount = ret.value]
                         ELSE [pass EXCEPT !.pc = "aborted"]
                    ELSE IF on_its_own THEN PassOver
                    ELSE IF ret.kind = "value"
                    THEN [pc |-> IF ret.value = 0 THEN "recount" ELSE "loop",
                          n |-> ret.value, i |-> 0, q0 |-> queue, got |-> <<>>,
                          clean |-> TRUE, recount |-> -1]
                    ELSE [NoPass EXCEPT !.pc = "aborted", !.q0 = queue]

\* message_registers(), called on its own or as one iteration of
\* "for _ in range(pending_message_count)"; the script subscripts the
\* result, so that None ends it with a TypeError.
message_registers ==
    /\ alive /\ serial_port = "open" /\ pass.pc # "recount"
    /\ LET message == message_registers_message(addresses)
       IN \E x \in send_message(message) :
            LET ret == message_registers_return(x)
            IN /\ last' = Called("message_registers", message.slave_id,
                                 message.starting_address, "none", <<>>, x, ret)
               /\ Exchanged(x)
               /\ delivered' =
                    IF ret.kind = "value" /\ MessageId(ret.value) # 0
                    THEN Append(delivered, MessageId(ret.value))
                    ELSE delivered
               /\ pass' =
                    IF pass.pc # "loop" THEN PassOver
                    ELSE IF ret.kind = "value"
                    THEN [pass EXCEPT
                            !.i = @ + 1,
                            !.got = Append(@, ret.value),
                            !.pc = IF pass.i + 1 = pass.n THEN "recount" ELSE "loop"]
                    ELSE [pass EXCEPT !.pc = "aborted"]

\* the destructor leaves the serial port as it is
del_keeps_port ==
    /\ alive /\ ~InPass
    /\ alive' = FALSE
    /\ UNCHANGED << addresses, serial_port, dip, snan_quieted, arrived, queue,
                    removed, delivered, last, pass, codec, shared >>

\* __del__: the client is destroyed and closes the serial port
del ==
    /\ alive /\ ~InPass
    /\ alive' = FALSE
    /\ serial_port' = "closed"
    /\ UNCHANGED << addresses, dip, snan_quieted, arrived, queue, removed,
                    delivered, last, pass, codec, shared >>

\* a device of the installation sends a message; the gateway queues it
MessageArrives ==
    /\ arrived < MaxArrivals
    /\ Len(queue) < MaxPending
    /\ arrived' = arrived + 1
    /\ queue' = Append(queue, arrived + 1)
    /\ pass' = IF InPass THEN [pass EXCEPT !.clean = FALSE] ELSE pass
    /\ UNCHANGED << alive, addresses, serial_port, dip, snan_quieted,
                    removed, delivered, last, codec, shared >>

Next ==
    \/ read_parameter
    \/ read_time
    \/ write_parameter
    \/ write_time
    \/ read_info
    \/ pending_message_count
    \/ message_registers
    \/ del
    \/ MessageArrives

Spec == Init /\ [][Next]_vars

(***************************************************************************)
(* The parameter codec on its own: a value is encoded as write_parameter   *)
(* encodes it, the device holds the two registers, and read_parameter or   *)
(* read_info decodes them.                                                 *)
(***************************************************************************)
ExpSamples == {0, 1, 36, 127, 130, 254, 255}

ManSamples == {0, 1, 2^22 - 1, 2^22, 2^22 + 1, 3430008, 2^23 - 1}

\* zeros, subnormals, normal values, infinities, quiet and signalling NaNs
F32Samples == { F32(s, e, m) : s \in {0, 1}, e \in ExpSamples, m \in ManSamples }

InitCodec ==
    /\ dip \in Offsets
    /\ alive = TRUE
    /\ addresses = Addresses(dip)
    /\ serial_port = "open"
    /\ snan_quieted \in BOOLEAN
    /\ arrived = 0
    /\ queue = <<>>
    /\ removed = {}
    /\ delivered = <<>>
    /\ last = NoCall
    /\ pass = NoPass
    /\ shared = NoShared
    /\ \E v \in F32Samples : codec = [NoCodec EXCEPT !.pc = "value", !.value = v]

NotCodec == << alive, addresses, serial_port, dip, snan_quieted, arrived,
               queue, removed, delivered, last, pass, shared >>

\* write_parameter's encoding: the registers of the request it sends
codec_write_parameter ==
    /\ codec.pc = "value"
    /\ codec' = [codec EXCEPT
                   !.pc = "written",
                   !.registers = write_parameter_registers(codec.value,
                                                           snan_quieted)]
    /\ UNCHANGED NotCodec

\* read_parameter's decoding of a reply that carries these registers
codec_read_parameter ==
    /\ codec.pc = "written"
    /\ codec' = [codec EXCEPT
                   !.pc = "read",
                   !.by = "read_parameter",
                   !.decoded = read_parameter_decode(codec.registers,
                                                     snan_quieted)]
    /\ UNCHANGED NotCodec

\* read_info's decoding of a reply that carries these registers
codec_read_info ==
    /\ codec.pc = "written"
    /\ codec' = [codec EXCEPT
                   !.pc = "read",
                   !.by = "read_info",
                   !.decoded = read_info_decode(codec.registers, snan_quieted)]
    /\ UNCHANGED NotCodec

NextCodec ==
    \/ codec_write_parameter
    \/ codec_read_parameter
    \/ codec_read_info

SpecCodec == InitCodec /\ [][NextCodec]_vars

(***************************************************************************)
(* The time codec on its own: a datetime is encoded as write_time encodes  *)
(* it, and read_time decodes a reply that carries these eight registers.   *)
(***************************************************************************)
YearSamples == {2000, 2022, 2024, 2099}

MonthSamples == {1, 2, 12}

DaySamples == {1, 28, 29, 31}

ClockSamples == { <<0, 0, 0>>, <<12, 30, 45>>, <<23, 59, 59>> }

MicrosecondSamples == {0, 999, 1000, 123456, 999999}

\* the datetime objects of the samples: the constructor raises on the others
DateTimeSamples ==
    { v \in { DateTimeRec(y, mo, d, c[1], c[2], c[3], us) :
                y \in YearSamples, mo \in MonthSamples, d \in DaySamples,
                c \in ClockSamples, us \in MicrosecondSamples } :
        datetime_valid(v.year, v.month, v.day, v.hour, v.minute, v.second,
                       v.microsecond) }

NoTime == [pc |-> "off", value |-> DateTimeRec(1, 1, 1, 0, 0, 0, 0),
           registers |-> <<>>, decoded |-> None]

InitTime ==
    /\ dip \in Offsets
    /\ alive = TRUE
    /\ addresses = Addresses(dip)
    /\ serial_port = "open"
    /\ snan_quieted \in BOOLEAN
    /\ arrived = 0
    /\ queue = <<>>
    /\ removed = {}
    /\ delivered = <<>>
    /\ last = NoCall
    /\ pass = NoPass
    /\ shared = NoShared
    /\ \E v \in DateTimeSamples : codec = [NoTime EXCEPT !.pc = "value", !.value = v]

\* write_time's encoding: the registers of the request it sends
codec_write_time ==
    /\ codec.pc = "value"
    /\ codec' = [codec EXCEPT
                   !.pc = "written",
                   !.registers = write_time_message(addresses.system_device_id,
                                                    codec.value).values]
    /\ UNCHANGED NotCodec

\* read_time's decoding of a reply that carries these registers
codec_read_time ==
    /\ codec.pc = "written"
    /\ codec' = [codec EXCEPT
                   !.pc = "read",
                   !.decoded = read_time_decode(codec.registers)]
    /\ UNCHANGED NotCodec

NextTime ==
    \/ codec_write_time
    \/ codec_read_time

SpecTime == InitTime /\ [][NextTime]_vars

(***************************************************************************)
(* The address space over every offset: a client is constructed for the    *)
(* offset, its operations run against a gateway to which no message        *)
(* arrives, and an Addresses object is built a second time for the same    *)
(* offset.                                                                 *)
(***************************************************************************)
\* the constructor does not hand the offset on
InitAddresses_offset_ignored ==
    /\ dip \in 0..MaxOffset
    /\ alive = TRUE
    /\ addresses = Addresses(0)
    /\ serial_port = "open"
    /\ snan_quieted = TRUE
    /\ arrived = 0
    /\ queue = <<>>
    /\ removed = {}
    /\ delivered = <<>>
    /\ last = NoCall
    /\ pass = NoPass
    /\ shared = NoShared
    /\ codec = NoCodec

InitAddresses ==
    /\ dip \in 0..MaxOffset
    /\ alive = TRUE
    /\ addresses = Addresses(dip)
    /\ serial_port = "open"
    /\ snan_quieted = TRUE
    /\ arrived = 0
    /\ queue = <<>>
    /\ removed = {}
    /\ delivered = <<>>
    /\ last = NoCall
    /\ pass = NoPass
    /\ shared = NoShared
    /\ codec = NoCodec

\* Addresses(offset), a second time, with the offset of the first
addresses_again ==
    /\ codec.pc = "off"
    /\ codec' = [pc |-> "again",
                 again |-> Addresses(addresses.dip_switches_offset)]
    /\ UNCHANGED NotCodec

NextAddresses ==
    \/ read_parameter
    \/ read_time
    \/ write_parameter
    \/ write_time
    \/ read_info
    \/ pending_message_count
    \/ message_registers
    \/ del
    \/ addresses_again

SpecAddresses == InitAddresses /\ [][NextAddresses]_vars

(***************************************************************************)
(* One client shared by two callers (threads) with no lock around it.      *)
(* read_parameter is the two steps of rtu.send_message: the request is     *)
(* written to the serial port, and the reply is read from it.  The device  *)
(* answers the requests in the order they reach it.                        *)
(***************************************************************************)
\* the registers of parameter 1107 in its three windows: 8.0, 2.0 and 50.0
ParamRegisters(address) ==
    IF address = ParamBase + 2000 THEN <<16384, 0>>
    ELSE IF address = ParamBase + 4000 THEN <<16968, 0>>
    ELSE <<16640, 0>>

\* the request goes out twice
serial_write_twice(line, by, message) ==
    line \o << [by |-> by, message |-> message], [by |-> by, message |-> message] >>

\* serial_port.write(adu), in send_message: nothing is waited for
serial_write(line, by, message) ==
    Append(line, [by |-> by, message |-> message])

InitShared ==
    /\ dip \in Offsets
    /\ alive = TRUE
    /\ addresses = Addresses(dip)
    /\ serial_port = "open"
    /\ snan_quieted \in BOOLEAN
    /\ arrived = 0
    /\ queue = <<>>
    /\ removed = {}
    /\ delivered = <<>>
    /\ last = NoCall
    /\ pass = NoPass
    /\ codec = NoCodec
    /\ shared = NoShared

NotShared == << alive, addresses, serial_port, dip, snan_quieted, arrived,
                queue, removed, delivered, last, pass, codec >>

\* a caller enters read_parameter: the request is built and written
caller_writes_request ==
    /\ alive /\ serial_port = "open"
    /\ \E c \in Callers, window \in ReadWindows :
         LET message ==
               read_parameter_message(addresses.xt_1_device_id,
                                      ParamBase + WindowOffset(addresses, window))
         IN /\ shared.pc[c] = "idle"
            /\ shared' = [shared EXCEPT
                            !.pc[c] = "reading",
                            !.window[c] = window,
                            !.ret[c] = None,
                            !.from[c] = 0,
                            !.line = serial_write(@, c, message),
                            !.started = @ \cup {c}]
    /\ UNCHANGED NotShared

\* the device answers the oldest request on the line
device_answers ==
    /\ shared.line # <<>>
    /\ LET r == Head(shared.line)
       IN shared' = [shared EXCEPT
                       !.line = Tail(@),
                       !.rx = Append(@, [for |-> r.by,
                                         data |-> ParamRegisters(
                                                    r.message.starting_address)])]
    /\ UNCHANGED NotShared

\* a caller's send_message reads the reply that has come in, and
\* read_parameter returns the float of its registers
caller_reads_reply ==
    /\ \E c \in Callers :
         /\ shared.pc[c] = "reading"
         /\ shared.rx # <<>>
         /\ shared' = [shared EXCEPT
                         !.pc[c] = "idle",
                         !.ret[c] = Value(read_parameter_decode(Head(shared.rx).data,
                                                                snan_quieted)),
                         !.from[c] = Head(shared.rx).for,
                         !.rx = Tail(@)]
    /\ UNCHANGED NotShared

NextShared ==
    \/ caller_writes_request
    \/ device_answers
    \/ caller_reads_reply

SpecShared == InitShared /\ [][NextShared]_vars

(***************************************************************************)
(* Properties                                                              *)
(***************************************************************************)
\* a step in which the client made a call
CallStep == arrived' = arrived /\ alive' = alive

\* C1 (message drain termination): a drain pass during which no message
\* arrives counts the N messages the queue holds, makes exactly N
\* message_registers() calls, each of which returns the next queued message
\* unless the transport fails, and the count query after the pass returns 0.
C1_DrainTermination ==
    /\ (pass.pc \in {"loop", "recount", "done"} /\ pass.clean) =>
          /\ pass.n = Len(pass.q0)
          /\ pass.n <= MaxPending
          /\ pass.i <= pass.n
          /\ pass.got = [k \in 1..pass.i |-> MessageOf(pass.q0[k])]
          /\ (pass.pc # "done" => queue = SubSeq(pass.q0, pass.i + 1, pass.n))
    /\ (pass.pc \in {"recount", "done"}) => pass.i = pass.n
    /\ (pass.pc = "done" /\ pass.clean) => pass.recount = 0
    /\ (pass.pc = "aborted" /\ pass.clean) =>
          last.exchange.fault \in TransportFaults

\* a clean pass over two or more messages has ended with the count query
C1_Witness ==
    /\ pass.pc = "done" /\ pass.clean
    /\ pass.n >= 2 /\ pass.i = pass.n /\ pass.recount = 0

\* C2 (at most once, no replay): a call returns at most one message, only a
\* message the gateway removes in that very exchange, never one it had
\* removed before or one already returned; a message removed in an exchange
\* that fails at the client is not returned, and so is lost.
C2_AtMostOnceNoReplay ==
    [][ /\ Len(delivered') <= Len(delivered) + 1
        /\ SubSeq(delivered', 1, Len(delivered)) = delivered
        /\ \A k \in (Len(delivered) + 1)..Len(delivered') :
              /\ delivered'[k] \notin removed
              /\ delivered'[k] \notin Range(delivered)
              /\ delivered'[k] \in removed'
        /\ (CallStep /\ last'.exchange.raised # "none") => delivered' = delivered
      ]_vars

\* one message was returned and another was lost in a failed exchange
C2_Witness ==
    /\ last.op = "message_registers"
    /\ last.exchange.fault = "lost_reply"
    /\ Len(delivered) >= 1
    /\ removed \ Range(delivered) # {}

\* a call of the drain loop
PassStep == pass.pc = "loop" /\ CallStep

\* C3 as stated: every message_registers() call of a drain pass consumes
\* exactly one queued message.
C3_ExactlyOnePerCall ==
    [][ PassStep => Len(queue') = Len(queue) - 1 ]_vars

\* C3 (amended): a message_registers() call of a drain pass whose request
\* reaches the gateway consumes exactly one queued message, the oldest; a call
\* whose request is lost consumes none; no call leaves the queue longer.
C3_AtMostOnePerCall ==
    [][ PassStep =>
          /\ Len(queue') <= Len(queue)
          /\ (last'.exchange.fault # "lost_request" => queue' = Tail(queue))
          /\ (last'.exchange.fault = "lost_request" => queue' = queue)
      ]_vars

\* two calls of a drain loop have each consumed a message
C3_Witness ==
    /\ pass.pc = "recount" /\ pass.n = 2 /\ pass.i = 2
    /\ last.op = "message_registers"
    /\ Len(queue) = 0 /\ Cardinality(removed) >= 2

\* C4: a failed call returns a tagged failure that tells a transport failure
\* (ValueError, KeyError) from a protocol exception (ModbusError); it never
\* returns None.
C4_TaggedOutcome ==
    last.exchange.raised # "none" =>
        /\ last.ret.kind = "raise"
        /\ last.ret.exc = last.exchange.raised

\* C5 (no retry): a call writes exactly one request to the port, the one it
\* built, whether the exchange succeeds or fails.
C5_OneRequestPerCall ==
    last.op # "none" =>
        /\ Len(last.exchange.tx) = 1
        /\ last.exchange.tx[1].slave_id = last.slave_id
        /\ last.exchange.tx[1].starting_address = last.address

\* a call has failed, with its single request on the line
C5_Witness ==
    /\ last.op = "read_parameter"
    /\ last.exchange.raised = "ValueError"
    /\ last.ret.kind = "None"
    /\ Len(last.exchange.tx) = 1

\* the request a client constructed for the gateway's offset, and which no
\* call has failed on, sends for the call c
FreshRequest(c) ==
    LET a == Addresses(dip)
    IN CASE c.op = "read_parameter" ->
              read_parameter_message(a.xt_1_device_id,
                                     ParamBase + WindowOffset(a, c.window))
         [] c.op = "write_parameter" ->
              write_parameter_message(a.xt_1_device_id,
                                      ParamBase + WindowOffset(a, c.window),
                                      c.value, snan_quieted)
         [] c.op = "read_info" -> read_info_message(a.xt_1_device_id, InfoAddress)
         [] c.op = "read_time" -> read_time_message(a.system_device_id)
         [] c.op = "write_time" -> write_time_message(a.system_device_id, c.value)
         [] c.op = "pending_message_count" -> pending_message_count_message(a)
         [] c.op = "message_registers" -> message_registers_message(a)

\* the result of the call c as its exchange alone decides it
FreshReturn(c) ==
    LET x == c.exchange
    IN IF x.raised # "none"
       THEN IF c.op = "pending_message_count" THEN Raise("TypeError") ELSE None
       ELSE CASE c.op = "read_parameter" ->
                   Value(unpack_f(pack_HH(x.response[1], x.response[2]),
                                  snan_quieted))
              [] c.op = "read_info" ->
                   Value(unpack_f(pack_HH(x.response[1], x.response[2]),
                                  snan_quieted))
              [] c.op = "read_time" -> read_time_decode(x.response)
              [] c.op = "pending_message_count" -> Value(x.response[1])
              [] OTHER -> Value(x.response)

TransportErrors == {"ValueError", "KeyError"}

\* the result of a successful call c to the gateway's message registers when
\* the gateway's queue is q
QueueReturn(c, q) ==
    IF c.op = "pending_message_count" THEN Value(Len(q))
    ELSE IF q # <<>> THEN Value(MessageOf(Head(q)))
    ELSE Value(<<0, 0, 0, 0>>)

\* C6 (failure isolation): a call whose exchange raised a transport
\* exception leaves every field of the client as it was, and the call made
\* after it sends the request, and returns for its exchange the result, of a
\* client on which no call has failed; when the failed call was not itself a
\* read of the message registers it took nothing from the gateway's queue,
\* and a message call made after it returns what that queue holds.
C6_FailureIsolation ==
    [][ /\ (CallStep /\ last'.exchange.raised \in TransportErrors) =>
              /\ addresses' = addresses
              /\ serial_port' = serial_port
        /\ (CallStep /\ last.exchange.raised \in TransportErrors) =>
              /\ addresses = Addresses(dip)
              /\ serial_port = "open"
              /\ last'.exchange.tx = << FreshRequest(last') >>
              /\ last'.ret = FreshReturn(last')
        /\ ( /\ CallStep
             /\ last.exchange.raised \in TransportErrors
             /\ last.op # "message_registers"
             /\ last'.op \in {"pending_message_count", "message_registers"}
             /\ last'.exchange.raised = "none" ) =>
              /\ last.exchange.queue = last.before
              /\ last'.ret = QueueReturn(last', queue)
      ]_vars

\* a message call has succeeded after a call that failed on the transport:
\* the gateway removed a message that no call returned, and a later message
\* was returned
C6_Witness ==
    /\ last.op = "message_registers"
    /\ last.ret.kind = "value"
    /\ \E m \in removed \ Range(delivered) : m < MessageId(last.ret.value)
    /\ addresses = Addresses(dip)
    /\ dip # 0

\* C7 (write echo): a successful write_parameter returns 2 and a successful
\* write_time returns 8, the number of registers its request carried.
C7_WriteEcho ==
    /\ (last.op = "write_parameter" /\ last.exchange.raised = "none") =>
          /\ last.ret.kind = "value"
          /\ last.ret.value = 2
          /\ Len(last.exchange.tx[1].values) = 2
          /\ last.exchange.tx[1].quantity = 2
    /\ (last.op = "write_time" /\ last.exchange.raised = "none") =>
          /\ last.ret.kind = "value"
          /\ last.ret.value = 8
          /\ Len(last.exchange.tx[1].values) = 8
          /\ last.exchange.tx[1].quantity = 8

\* a write_time has succeeded
C7_Witness ==
    /\ last.op = "write_time"
    /\ last.exchange.raised = "none"
    /\ last.ret = Value(8)

\* C8 (parameter window selection): read_parameter and write_parameter send
\* the address they are given as the starting address, so that register 14 is
\* read at 14, 2014 or 4014 and written at 14 or 6014 by the window the
\* caller added.
C8_WindowSelection ==
    /\ last.op \in {"read_parameter", "write_parameter"} =>
          last.exchange.tx[1].starting_address = last.address
    /\ last.op = "read_parameter" =>
          /\ last.window = "flash" => last.exchange.tx[1].starting_address = 14
          /\ last.window = "min" => last.exchange.tx[1].starting_address = 2014
          /\ last.window = "max" => last.exchange.tx[1].starting_address = 4014
    /\ last.op = "write_parameter" =>
          /\ last.window = "flash_ram" => last.exchange.tx[1].starting_address = 14
          /\ last.window = "ram_only" => last.exchange.tx[1].starting_address = 6014

\* the minimum of the parameter has been read
C8_Witness ==
    /\ last.op = "read_parameter"
    /\ last.window = "min"
    /\ last.address = 2014
    /\ last.exchange.raised = "none"

RequestShape(r) == << r.function_code, r.starting_address, r.quantity >>

\* C9 (request shapes): the request of every call has the function code, the
\* starting address and the quantity of its operation, for the slave it was
\* given; the two message operations address the gateway, offset + 1.
C9_RequestShape ==
    last.op # "none" =>
        LET r == last.exchange.tx[1]
        IN /\ last.op = "read_parameter" =>
                 RequestShape(r) = <<3, last.address, 2>> /\ r.slave_id = last.slave_id
           /\ last.op = "read_time" =>
                 RequestShape(r) = <<3, 0, 8>> /\ r.slave_id = last.slave_id
           /\ last.op = "read_info" =>
                 RequestShape(r) = <<4, last.address, 2>> /\ r.slave_id = last.slave_id
           /\ last.op = "pending_message_count" =>
                 RequestShape(r) = <<4, 0, 1>> /\ r.slave_id = dip + 1
           /\ last.op = "message_registers" =>
                 RequestShape(r) = <<4, 1, 4>> /\ r.slave_id = dip + 1
           /\ last.op = "write_parameter" =>
                 RequestShape(r) = <<16, last.address, 2>> /\ r.slave_id = last.slave_id
           /\ last.op = "write_time" =>
                 RequestShape(r) = <<16, 0, 8>> /\ r.slave_id = last.slave_id

\* a second message was read from a gateway whose dip-switches are not all
\* off
C9_Witness ==
    /\ dip # 0
    /\ last.op = "message_registers"
    /\ last.exchange.tx[1].slave_id = dip + 1
    /\ Len(delivered) >= 2

\* the high and the low 16 bits of a binary32
HighWord(v) == v.sign * 32768 + v.exp * 128 + (v.man \div 65536)

LowWord(v) == v.man % 65536

TruncatedToMillisecond(value) ==
    [value EXCEPT !.microsecond = (value.microsecond \div 1000) * 1000]

\* C11 (timestamp round trip): for a valid timestamp of the years 2000..2099,
\* the eight registers write_time sends fit 16 bits each, and read_time
\* decodes them to the same year, month, day, hour, minute, second and
\* millisecond; only the precision below 1 ms is lost.
C11_TimeRoundTrip ==
    /\ codec.pc \in {"written", "read"} =>
          /\ Len(codec.registers) = 8
          /\ \A k \in 1..8 : codec.registers[k] \in 0..65535
    /\ codec.pc = "read" =>
          /\ codec.value.year \in 2000..2099
          /\ codec.decoded = Value(TruncatedToMillisecond(codec.value))

\* the last microsecond of a leap day has made the round trip
C11_Witness ==
    /\ codec.pc = "read"
    /\ codec.value = DateTimeRec(2024, 2, 29, 23, 59, 59, 999999)
    /\ codec.decoded = Value(DateTimeRec(2024, 2, 29, 23, 59, 59, 999000))

\* C12: write_time sends the eight registers [millisecond, second, minute,
\* hour, weekday with 0 = Monday, day, month, year - 2000].
C12_RegisterOrder ==
    last.op = "write_time" =>
        last.exchange.tx[1].values =
            << last.value.microsecond \div 1000, last.value.second,
               last.value.minute, last.value.hour, weekday(last.value),
               last.value.day, last.value.month, last.value.year - 2000 >>

\* C13: read_time returns the year 2000 + y for a reply whose register 7
\* holds the two-digit year y.
C13_TwoDigitYear ==
    ( /\ last.op = "read_time"
      /\ last.exchange.raised = "none"
      /\ last.exchange.response[8] \in 0..99
      /\ last.ret.kind = "value" ) =>
        last.ret.value.year = 2000 + last.exchange.response[8]

\* the unicast ids of the Xtenders, the VarioTracks and the VarioStrings
XtIds(a) ==
    << a.xt_1_device_id, a.xt_2_device_id, a.xt_3_device_id,
       a.xt_4_device_id, a.xt_5_device_id, a.xt_6_device_id,
       a.xt_7_device_id, a.xt_8_device_id, a.xt_9_device_id >>

VtIds(a) ==
    << a.vt_1_device_id, a.vt_2_device_id, a.vt_3_device_id,
       a.vt_4_device_id, a.vt_5_device_id, a.vt_6_device_id,
       a.vt_7_device_id, a.vt_8_device_id, a.vt_9_device_id,
       a.vt_10_device_id, a.vt_11_device_id, a.vt_12_device_id,
       a.vt_13_device_id, a.vt_14_device_id, a.vt_15_device_id >>

VsIds(a) ==
    << a.vs_1_device_id, a.vs_2_device_id, a.vs_3_device_id,
       a.vs_4_device_id, a.vs_5_device_id, a.vs_6_device_id,
       a.vs_7_device_id, a.vs_8_device_id, a.vs_9_device_id,
       a.vs_10_device_id, a.vs_11_device_id, a.vs_12_device_id,
       a.vs_13_device_id, a.vs_14_device_id, a.vs_15_device_id >>

\* C14 (address construction): every id of the client's Addresses is the
\* offset plus its constant (gateway +1, system +2, Xtender group +10 and
\* +11..+19, VarioTrack group +20 and +21..+35, VarioString group +40 and
\* +41..+55, BSP group +60 and +61); an Addresses built again from the same
\* offset has identical fields; for offset 0, xt_1 is 11, vt_1 is 21 and the
\* gateway is 1.
C14_AddressConstruction ==
    /\ addresses.dip_switches_offset = dip
    /\ addresses.gateway_device_id = dip + 1
    /\ addresses.system_device_id = dip + 2
    /\ addresses.xt_group_device_id = dip + 10
    /\ \A k \in 1..9 : XtIds(addresses)[k] = dip + 10 + k
    /\ addresses.vt_group_device_id = dip + 20
    /\ \A k \in 1..15 : VtIds(addresses)[k] = dip + 20 + k
    /\ addresses.vs_group_device_id = dip + 40
    /\ \A k \in 1..15 : VsIds(addresses)[k] = dip + 40 + k
    /\ addresses.bsp_group_device_id = dip + 60
    /\ addresses.bsp_device_id = dip + 61
    /\ codec.pc = "again" => codec.again = addresses
    /\ dip = 0 =>
          /\ addresses.xt_1_device_id = 11
          /\ addresses.vt_1_device_id = 21
          /\ addresses.gateway_device_id = 1

\* the addresses were built a second time for an offset that is not 0,
\* after the client has made a call
C14_Witness ==
    /\ codec.pc = "again"
    /\ dip = 32
    /\ codec.again.vs_15_device_id = 87
    /\ codec.again = addresses
    /\ last.op # "none"

\* every device id of an Addresses object
AllIds(a) ==
    << a.gateway_device_id, a.system_device_id,
       a.xt_l1_group_device_id, a.xt_l2_group_device_id, a.xt_l3_group_device_id,
       a.xt_group_device_id, a.vt_group_device_id, a.vs_group_device_id,
       a.bsp_group_device_id, a.bsp_device_id >>
    \o XtIds(a) \o VtIds(a) \o VsIds(a)

\* C15 (ids never overlap): for every offset the 49 device ids of the
\* client's Addresses are pairwise distinct in every state the client's
\* operations reach, and no step changes the object.
C15_IdsDistinct ==
    /\ [](/\ Len(AllIds(addresses)) = 49
          /\ Cardinality(Range(AllIds(addresses))) = Len(AllIds(addresses)))
    /\ [][addresses' = addresses]_vars

\* a drain pass has ended with a failed call on a client of the largest
\* offset, whose ids are still distinct
C15_Witness ==
    /\ dip = MaxOffset
    /\ last.op = "pending_message_count"
    /\ last.exchange.raised = "ValueError"
    /\ pass.pc = "aborted"
    /\ Cardinality(Range(AllIds(addresses))) = 49
    /\ addresses.bsp_device_id = dip + 61

\* C16 (pending_message_count is read-only): a pending_message_count() call
\* leaves the gateway's queue as it was and, when its exchange succeeds,
\* returns the value of the gateway's input register 0, the number of
\* queued messages, unchanged; made after another with no message arrived in
\* between, it returns the same value; a call that takes a message from the
\* queue is a message_registers() call.
C16_CountReadOnly ==
    [][ /\ (CallStep /\ last'.op = "pending_message_count") =>
              /\ queue' = queue
              /\ removed' = removed
              /\ delivered' = delivered
              /\ last'.exchange.raised = "none" =>
                    /\ last'.ret = Value(last'.exchange.response[1])
                    /\ last'.ret = Value(Len(queue))
        /\ ( /\ CallStep
             /\ last'.op = "pending_message_count"
             /\ last'.ret.kind = "value"
             /\ last.op = "pending_message_count"
             /\ last.ret.kind = "value"
             /\ last.exchange.queue = queue ) =>
              last'.ret = last.ret
        /\ (CallStep /\ queue' # queue) => last'.op = "message_registers"
      ]_vars

\* two pending messages were counted, by a call that followed upon a call
\* that had counted them too
C16_Witness ==
    /\ last.op = "pending_message_count"
    /\ last.streak = 2
    /\ last.ret.kind = "value"
    /\ last.ret.value = 2
    /\ last.before = queue
    /\ Len(queue) = 2

\* C17: a call whose exchange raised ValueError, KeyError or ModbusError
\* returns None to its caller and raises nothing, whatever the operation.
C17_FailureReturnsNone ==
    last.exchange.raised \in {"ValueError", "KeyError", "ModbusError"} =>
        last.ret = None

\* C19 (release of the serial channel): the port is open exactly as long as
\* the client exists; the only step that changes it is the client's
\* destruction, which closes it, after failed calls as well; once it is
\* closed no call is made and no request is sent.
C19_ChannelRelease ==
    /\ [](alive <=> serial_port = "open")
    /\ [][ /\ serial_port' # serial_port =>
                 alive /\ ~alive' /\ serial_port' = "closed" /\ last' = last
           /\ CallStep => serial_port' = serial_port
           /\ serial_port = "closed" =>
                 last' = last /\ serial_port' = "closed" /\ ~alive'
         ]_vars

\* the client was destroyed after a call that had failed
C19_Witness ==
    /\ ~alive
    /\ serial_port = "closed"
    /\ last.op = "write_parameter"
    /\ last.exchange.raised = "KeyError"
    /\ last.ret.kind = "None"

\* C20 (read_time on registers that are no date and time): a read_time()
\* whose exchange succeeds returns the datetime of the eight registers when
\* they are the arguments of a valid datetime, and ends with a ValueError
\* raised to the caller, not with None, when they are not; in both cases the
\* client's addresses and serial port stay as they were.
C20_InvalidTimeRaises ==
    [][ (CallStep /\ last'.op = "read_time" /\ last'.exchange.raised = "none") =>
          LET r == last'.exchange.response
              valid == datetime_valid(r[8], r[7], r[6], r[4], r[3], r[2],
                                      r[1] * 1000)
          IN /\ valid =>
                   last'.ret = Value(DateTimeRec(r[8], r[7], r[6], r[4], r[3],
                                                 r[2], r[1] * 1000))
             /\ ~valid => last'.ret = Raise("ValueError")
             /\ (r[7] = 0 \/ r[6] = 0 \/ r[1] >= 1000) => last'.ret.kind = "raise"
             /\ addresses' = addresses
             /\ serial_port' = serial_port
      ]_vars

\* a read_time() has raised on a first register of 1000
C20_Witness ==
    /\ last.op = "read_time"
    /\ last.exchange.raised = "none"
    /\ last.exchange.response[1] = 1000
    /\ last.ret = Raise("ValueError")
    /\ serial_port = "open"

\* the requests written to the port whose reply no caller has read yet
Outstanding == Len(shared.line) + Len(shared.rx)

\* C18 (no serialization of the channel): a caller has at most one request
\* of its own outstanding, so that as long as a single caller uses the client
\* at most one request is outstanding and every call returns the value the
\* device holds for its own request; nothing keeps a second caller from
\* writing its request while the first waits.
C18_SingleCallerOneOutstanding ==
    /\ Outstanding = Cardinality({ c \in Callers : shared.pc[c] = "reading" })
    /\ Cardinality(shared.started) <= 1 =>
          /\ Outstanding <= 1
          /\ \A c \in Callers :
                /\ shared.from[c] \in {0, c}
                /\ shared.ret[c].kind = "value" =>
                      shared.ret[c].value =
                          read_parameter_decode(
                              ParamRegisters(
                                  ParamBase
                                  + WindowOffset(addresses, shared.window[c])),
                              snan_quieted)

\* caller 2 wrote its request for the maximum before caller 1 had read the
\* reply to its request for the minimum, and has read that reply, 2.0, while
\* caller 1 still waits
C18_Witness ==
    /\ shared.pc[1] = "reading"
    /\ shared.window[1] = "min"
    /\ shared.pc[2] = "idle"
    /\ shared.window[2] = "max"
    /\ shared.from[2] = 1
    /\ shared.ret[2] = Value(F32(0, 128, 0))
    /\ Len(shared.line) = 1

==========================================================================
